---- MODULE Spec2Model ----
(***************************************************************************)
(* Split DeepFM (sl_deepfm_torch.py): DeepFMBase, one per party, and       *)
(* DeepFMFuse, the aggregator.                                             *)
(*                                                                         *)
(* Tensors.  Every tensor of the program is either 0-dimensional (the      *)
(* torch.tensor(0) sentinel) or has a leading batch dimension along which  *)
(* every operation of the two forward passes acts example by example.  A   *)
(* tensor is modelled by its rank and the values of ONE example:           *)
(*   rank 0   0-d tensor            rows = << <<v>> >>                     *)
(*   rank 1   [B]      (indices)    rows = << <<v>> >>                     *)
(*   rank 2   [B, w]                rows = << row >>,  Len(row) = w        *)
(*   rank 3   [B, k, w]             rows = k rows of width w               *)
(*   rank -1  the operation raised  (RAISED)                               *)
(*   rank -2  Python None                                                  *)
(* Reals are modelled by integers.  The only non-integer constant of the   *)
(* code, the factor 0.5 of DeepFMFuse.forward, is kept exact by carrying   *)
(* the values that follow it doubled (names ending in 2).                  *)
(***************************************************************************)
EXTENDS Integers, Sequences, FiniteSets, TLC

\* ---------------------------------------------------------------- bounds
MaxParties == 3     \* parties handed to one DeepFMFuse
MaxSlots == 3       \* len(input_dims) of one DeepFMBase
MaxCont == 2        \* len(continuous_feas_index)
MaxDim == 2         \* fm_embedding_dim ranges over 1..MaxDim
MaxCard == 2        \* every input_dims entry (cardinality or width)

\* ------------------------------------------------------- tensor encoding
RAISED == [rank |-> -1, rows |-> <<>>]
NoneT == [rank |-> -2, rows |-> <<>>]
Scalar(v) == [rank |-> 0, rows |-> << <<v>> >>]
IdxT(v) == [rank |-> 1, rows |-> << <<v>> >>]
Mat(row) == [rank |-> 2, rows |-> <<row>>]
Cube(rows) == [rank |-> 3, rows |-> rows]

IsTensor(t) == t.rank >= 0
Width(t) == Len(t.rows[1])

RECURSIVE SumSeq(_)
SumSeq(s) == IF s = <<>> THEN 0 ELSE s[1] + SumSeq(Tail(s))

RECURSIVE Flat(_)
Flat(rows) == IF rows = <<>> THEN <<>> ELSE rows[1] \o Flat(Tail(rows))

Range(s) == {s[i] : i \in 1..Len(s)}

\* Python sequence indexing s[i]: negative i counts from the end.
PyIndexOK(n, i) == i >= -n /\ i < n
PyPos(n, i) == IF i >= 0 THEN i + 1 ELSE n + i + 1

\* s[start::4] of a Python list
Stride4(s, start) ==
    LET cnt == IF Len(s) > start THEN (Len(s) - start + 3) \div 4 ELSE 0
    IN [j \in 1..cnt |-> s[start + 4 * (j - 1) + 1]]

\* ------------------------------------------------------------- torch ops
\* torch.cat(ts, dim=1) of [B, w_i] tensors
torch_cat1(ts) ==
    IF ts = <<>> \/ \E i \in 1..Len(ts) : ts[i].rank # 2 THEN RAISED
    ELSE Mat(Flat([i \in 1..Len(ts) |-> ts[i].rows[1]]))

\* torch.stack(ts, dim=1): all tensors of one shape, of rank >= 1
torch_stack1(ts) ==
    IF ts = <<>> THEN RAISED
    ELSE IF \E i \in 1..Len(ts) :
                \/ ts[i].rank # ts[1].rank
                \/ ts[i].rank \notin {1, 2}
                \/ Width(ts[i]) # Width(ts[1]) THEN RAISED
    ELSE IF ts[1].rank = 1 THEN Mat([i \in 1..Len(ts) |-> ts[i].rows[1][1]])
    ELSE Cube([i \in 1..Len(ts) |-> ts[i].rows[1]])

\* torch.sum(t, dim=1, keepdim=keepdim)
torch_sum1(t, keepdim) ==
    IF t.rank = 3 THEN
        LET w == Width(t)
            col == [d \in 1..w |-> SumSeq([i \in 1..Len(t.rows) |-> t.rows[i][d]])]
        IN IF keepdim THEN Cube(<<col>>) ELSE Mat(col)
    ELSE IF t.rank = 2 THEN
        IF keepdim THEN Mat(<<SumSeq(t.rows[1])>>) ELSE IdxT(SumSeq(t.rows[1]))
    ELSE RAISED

\* torch.pow(t, 2)
torch_pow2(t) ==
    IF ~IsTensor(t) THEN RAISED
    ELSE [rank |-> t.rank,
          rows |-> [i \in 1..Len(t.rows) |->
                       [d \in 1..Len(t.rows[i]) |-> t.rows[i][d] * t.rows[i][d]]]]

\* torch.unsqueeze(t, dim=1)
torch_unsqueeze1(t) ==
    IF t.rank = 1 THEN Mat(t.rows[1])
    ELSE IF t.rank = 2 THEN Cube(t.rows)
    ELSE RAISED

\* torch.flatten(t, 1)
torch_flatten1(t) ==
    IF t.rank = 3 THEN Mat(Flat(t.rows))
    ELSE IF t.rank = 2 THEN t
    ELSE RAISED

\* torch.equal(t, torch.tensor(0)): same size and same elements (the float32
\* sentinel and the int64 zero are compared after promotion)
torch_equal0(t) == t.rank = 0 /\ t.rows[1][1] = 0

\* a + sign * b with broadcasting, for operands of rank 0 and 2
Broadcast(a, b, sign) ==
    IF ~IsTensor(a) \/ ~IsTensor(b) THEN RAISED
    ELSE IF a.rank = 0 /\ b.rank = 0 THEN Scalar(a.rows[1][1] + sign * b.rows[1][1])
    ELSE IF a.rank = 0 /\ b.rank = 2
        THEN Mat([d \in 1..Width(b) |-> a.rows[1][1] + sign * b.rows[1][d]])
    ELSE IF a.rank = 2 /\ b.rank = 0
        THEN Mat([d \in 1..Width(a) |-> a.rows[1][d] + sign * b.rows[1][1]])
    ELSE IF a.rank = 2 /\ b.rank = 2 THEN
        IF Width(a) = Width(b)
            THEN Mat([d \in 1..Width(a) |-> a.rows[1][d] + sign * b.rows[1][d]])
        ELSE IF Width(a) = 1
            THEN Mat([d \in 1..Width(b) |-> a.rows[1][1] + sign * b.rows[1][d]])
        ELSE IF Width(b) = 1
            THEN Mat([d \in 1..Width(a) |-> a.rows[1][d] + sign * b.rows[1][1]])
        ELSE RAISED
    ELSE RAISED

torch_add(a, b) == Broadcast(a, b, 1)
torch_sub(a, b) == Broadcast(a, b, -1)

\* c * t for a Python number c
torch_scale(c, t) ==
    IF ~IsTensor(t) THEN RAISED
    ELSE [rank |-> t.rank,
          rows |-> [i \in 1..Len(t.rows) |->
                       [d \in 1..Len(t.rows[i]) |-> c * t.rows[i][d]]]]

\* ---------------------------------------------------------------- layers
\* Parameters.  The code draws them at random (uniform_(-1, 1) for the
\* embedding tables, torch's default for nn.Linear) and training moves them;
\* the model takes one table per seed and one weight and bias for all
\* linear layers.
NumSeeds == 2
NumVariants == 2    \* examples of the data set
LinW == 1
LinB == 0

\* row `i` of the first-order table of slot `slot`
Emb1W(seed, slot, i) == ((seed + slot + 2 * i) % 3) - 1
\* component d of row `i` of the second-order table of slot `slot`
Emb2W(seed, slot, i, d) == ((2 * seed + slot + 3 * i + 2 * d) % 5) - 2

\* nn.Embedding(card, 1)(t) for the first-order table of a slot
Embedding1(seed, slot, card, t) ==
    IF t.rank # 1 THEN RAISED
    ELSE IF t.rows[1][1] \notin 0..(card - 1) THEN RAISED
    ELSE Mat(<<Emb1W(seed, slot, t.rows[1][1])>>)

\* nn.Embedding(card, dim)(t) for the second-order table of a slot
Embedding2(seed, slot, card, dim, t) ==
    IF t.rank # 1 THEN RAISED
    ELSE IF t.rows[1][1] \notin 0..(card - 1) THEN RAISED
    ELSE Mat([d \in 1..dim |-> Emb2W(seed, slot, t.rows[1][1], d)])

\* nn.Linear(in_features, out_features)(t)
Linear(in_features, out_features, t) ==
    IF t.rank # 2 THEN RAISED
    ELSE IF Width(t) # in_features THEN RAISED
    ELSE Mat([j \in 1..out_features |-> LinW * SumSeq(t.rows[1]) + LinB])

\* nn.ReLU()(t)
ReLU(t) ==
    IF ~IsTensor(t) THEN RAISED
    ELSE [rank |-> t.rank,
          rows |-> [i \in 1..Len(t.rows) |->
                       [d \in 1..Len(t.rows[i]) |->
                           IF t.rows[i][d] > 0 THEN t.rows[i][d] ELSE 0]]]

\* DeepFMBase._dnn_layer: Linear, ReLU, ..., Linear (the last ReLU is cut)
RECURSIVE BaseDnn(_, _, _)
BaseDnn(units, in_features, t) ==
    IF units = <<>> THEN t
    ELSE IF Len(units) = 1 THEN Linear(in_features, units[1], t)
    ELSE BaseDnn(Tail(units), units[1], ReLU(Linear(in_features, units[1], t)))

\* DeepFMFuse._dnn: (Linear, ReLU) per unit, then Linear(start, 1)
RECURSIVE FuseDnn(_, _, _)
FuseDnn(units, start, t) ==
    IF units = <<>> THEN Linear(start, 1, t)
    ELSE FuseDnn(Tail(units), units[1], ReLU(Linear(start, units[1], t)))

\* ------------------------------------------------------------ DeepFMBase
\* the keys of the two embedding dicts, in insertion order
RECURSIVE EmbKeys(_, _, _)
EmbKeys(index, n, cont) ==
    IF index >= n THEN <<>>
    ELSE IF index \notin Range(cont) THEN <<index>> \o EmbKeys(index + 1, n, cont)
    ELSE EmbKeys(index + 1, n, cont)

\* `continuous_dim += input_dims[index]` over the continuous indices
RECURSIVE ContinuousDim(_, _)
ContinuousDim(input_dims, cont) ==
    IF cont = <<>> THEN 0
    ELSE input_dims[PyPos(Len(input_dims), cont[1])]
         + ContinuousDim(input_dims, Tail(cont))

Has_cat_feas(input_size, cont) == Len(cont) # input_size

\* second_part_dim of the constructor
SecondPartDim(input_size, cont, fm_embedding_dim) ==
    IF Has_cat_feas(input_size, cont)
    THEN (input_size - Len(cont)) * fm_embedding_dim
    ELSE fm_embedding_dim

\* The constructor raises where one of its statements raises: input_dims[index]
\* with an index Python rejects, or a layer of negative width.
InitRaises(input_dims, cont, fm_embedding_dim) ==
    \/ \E k \in 1..Len(cont) : ~PyIndexOK(Len(input_dims), cont[k])
    \/ SecondPartDim(Len(input_dims), cont, fm_embedding_dim) < 0

\* The object the constructor leaves behind.
DeepFMBase_init(input_dims, dnn_units_size, cont, fm_embedding_dim, seed) ==
    [input_dims |-> input_dims,
     fm_embedding_dim |-> fm_embedding_dim,
     seed |-> seed,
     input_size |-> Len(input_dims),
     dnn_units_size |-> dnn_units_size,
     continuous_feas_index |-> cont,
     has_cat_feas |-> Has_cat_feas(Len(input_dims), cont),
     has_cont_feas |-> Len(cont) # 0,
     cat_feas_nums |-> Len(input_dims) - Len(cont),
     cont_feas_nums |-> Len(cont),
     second_part_dim |-> SecondPartDim(Len(input_dims), cont, fm_embedding_dim),
     emb_keys |-> IF Has_cat_feas(Len(input_dims), cont)
                  THEN EmbKeys(0, Len(input_dims), cont) ELSE <<>>,
     continuous_dim |-> IF Len(cont) # 0 THEN ContinuousDim(input_dims, cont) ELSE 0]

\* what a call that raised leaves: no output
RaisedCall == [raised |-> TRUE, out |-> <<>>]
Returned(out) == [raised |-> FALSE, out |-> out]

\* the first-order half of forward (fm_1st_part)
Fm1stPart(self, x) ==
    LET n == self.input_size
        keys == self.emb_keys
        fm_1st_sparse_res ==
            torch_sum1(torch_cat1([j \in 1..Len(keys) |->
                Embedding1(self.seed, keys[j], self.input_dims[keys[j] + 1],
                           x[keys[j] + 1])]), TRUE)
        cont == self.continuous_feas_index
        dense_cat == torch_cat1([j \in 1..Len(cont) |-> x[PyPos(n, cont[j])]])
        fm_1st_dense_res == Linear(self.continuous_dim, 1, dense_cat)
    IN IF self.has_cat_feas
       THEN IF self.has_cont_feas
            THEN torch_add(fm_1st_sparse_res, fm_1st_dense_res)
            ELSE fm_1st_sparse_res
       ELSE IF self.has_cont_feas THEN fm_1st_dense_res ELSE NoneT

\* fm_2nd_stack_1d: the stacked second-order embeddings, [B, k, D]
Fm2ndStack(self, x) ==
    LET keys == self.emb_keys
    IN torch_stack1([j \in 1..Len(keys) |->
           Embedding2(self.seed, keys[j], self.input_dims[keys[j] + 1],
                      self.fm_embedding_dim, x[keys[j] + 1])])

\* sum_emb
SumEmb(stack) == torch_sum1(stack, FALSE)

\* a slip: the square taken after the sum over the slots
SquareAndSumEmb_SquareOfSum(stack) == torch_pow2(torch_sum1(stack, FALSE))

\* square_and_sum_emb
SquareAndSumEmb(stack) == torch_sum1(torch_pow2(stack), FALSE)

\* dnn_input
DnnInput(self, x, stack) ==
    LET n == self.input_size
        cont == self.continuous_feas_index
        dense_cat == torch_cat1([j \in 1..Len(cont) |-> x[PyPos(n, cont[j])]])
        dense_out == ReLU(Linear(self.continuous_dim, self.second_part_dim, dense_cat))
        flat == torch_flatten1(stack)
    IN IF self.has_cat_feas
       THEN IF self.has_cont_feas THEN torch_add(flat, dense_out) ELSE flat
       ELSE IF self.has_cont_feas THEN dense_out ELSE NoneT

\* a slip: zero vectors in place of the scalar sentinel
SentinelTail_ZeroVectors(dnn_output, fm_1st_part) ==
    <<dnn_output, fm_1st_part, Mat(<<0>>), Mat(<<0>>)>>

\* the list forward returns when the party has no categorical features
SentinelTail(dnn_output, fm_1st_part) ==
    <<dnn_output, fm_1st_part, Scalar(0), Scalar(0)>>

\* DeepFMBase.forward(x)
DeepFMBase_forward(self, x) ==
    IF Len(x) # self.input_size THEN RaisedCall
    ELSE
        LET fm_1st_part == Fm1stPart(self, x)
            stack == Fm2ndStack(self, x)
            dnn_output == BaseDnn(self.dnn_units_size, self.second_part_dim,
                                  DnnInput(self, x, stack))
            out == IF self.has_cat_feas
                   THEN <<dnn_output, fm_1st_part, SumEmb(stack), SquareAndSumEmb(stack)>>
                   ELSE SentinelTail(dnn_output, fm_1st_part)
        IN IF \E i \in 1..4 : out[i] = RAISED THEN RaisedCall ELSE Returned(out)

\* DeepFMBase.output_num()
output_num == 4

\* ------------------------------------------------------------ DeepFMFuse
DeepFMFuse_init(input_dims, dnn_units_size) ==
    [start |-> SumSeq(input_dims),
     n_parties |-> Len(input_dims),
     dnn_units_size |-> dnn_units_size]

\* fm_1st_part of DeepFMFuse.forward
FuseFm1st(x) == torch_sum1(torch_stack1(Stride4(x, 1)), FALSE)

\* sum_embs, before the reduction over the party axis
FuseSumEmbs(x) ==
    IF torch_equal0(x[3]) THEN torch_unsqueeze1(x[7])
    ELSE IF torch_equal0(x[7]) THEN torch_unsqueeze1(x[3])
    ELSE torch_stack1(Stride4(x, 2))

\* sum_and_square_emb
SumAndSquareEmb(x) == torch_pow2(torch_sum1(FuseSumEmbs(x), FALSE))

\* a slip: the sentinel side taken where the other side is meant
FuseSquareAndSumEmb_WrongSide(x) ==
    IF torch_equal0(x[4]) THEN x[4]
    ELSE IF torch_equal0(x[8]) THEN x[8]
    ELSE torch_sum1(torch_stack1(Stride4(x, 3)), FALSE)

\* square_and_sum_emb
FuseSquareAndSumEmb(x) ==
    IF torch_equal0(x[4]) THEN x[8]
    ELSE IF torch_equal0(x[8]) THEN x[4]
    ELSE torch_sum1(torch_stack1(Stride4(x, 3)), FALSE)

\* 2 * sub, where sub = 0.5 * (sum_and_square_emb - square_and_sum_emb) + fm_1st_part
Sub2(sum_and_square_emb, square_and_sum_emb, fm_1st_part) ==
    torch_add(torch_sub(sum_and_square_emb, square_and_sum_emb),
              torch_scale(2, fm_1st_part))

\* DeepFMFuse.forward(x).  x[2], x[6], x[3] and x[7] are read on every path, so
\* a list shorter than 8 raises IndexError.  The call returns
\* sigmoid(outputs); the record keeps 2 * outputs and the intermediate values.
DeepFMFuse_forward(self, x) ==
    IF Len(x) < 8 THEN [raised |-> TRUE, outputs2 |-> RAISED, second2 |-> RAISED,
                        fm_1st_part |-> RAISED, dnn |-> RAISED]
    ELSE
        LET dnn_outputs == torch_cat1(Stride4(x, 0))
            fm_1st_part == FuseFm1st(x)
            sum_and_square_emb == SumAndSquareEmb(x)
            square_and_sum_emb == FuseSquareAndSumEmb(x)
            second2 == torch_sub(sum_and_square_emb, square_and_sum_emb)
            sub2 == Sub2(sum_and_square_emb, square_and_sum_emb, fm_1st_part)
            fm_2nd_part2 == torch_sum1(sub2, TRUE)
            dnn == FuseDnn(self.dnn_units_size, self.start, dnn_outputs)
            outputs2 == torch_add(fm_2nd_part2, torch_scale(2, dnn))
        IN [raised |-> outputs2 = RAISED, outputs2 |-> outputs2, second2 |-> second2,
            fm_1st_part |-> fm_1st_part, dnn |-> dnn]

\* ----------------------------------------------------------------- state
VARIABLES
    bases,      \* the DeepFMBase instances that exist, in construction order
    last_init,  \* the latest DeepFMBase constructor call and whether it raised
    calls,      \* per party: its latest forward call (input, raised, output)
    fuse,       \* the DeepFMFuse instance
    fcall,      \* the latest DeepFMFuse.forward call
    example     \* which example of the data set the batch holds

vars == <<bases, last_init, calls, fuse, fcall, example>>

NoCall == [called |-> FALSE, x |-> <<>>, raised |-> FALSE, out |-> <<>>]
NoFuse == [built |-> FALSE, start |-> 0, n_parties |-> 0, dnn_units_size |-> <<>>]
NoFuseCall == [called |-> FALSE, x |-> <<>>, raised |-> FALSE, outputs2 |-> NoneT,
               second2 |-> NoneT, fm_1st_part |-> NoneT, dnn |-> NoneT]
NoInit == [called |-> FALSE, input_dims |-> <<>>, cont |-> <<>>, raised |-> FALSE]

Init ==
    /\ bases = <<>>
    /\ last_init = NoInit
    /\ calls = <<>>
    /\ fuse = NoFuse
    /\ fcall = NoFuseCall
    /\ example \in 0..(NumVariants - 1)

\* ---------------------------------------------------------------- inputs
\* dnn_units_size of a DeepFMBase
BaseUnits == {<<2>>, <<2, 1>>}
\* dnn_units_size of the parties of the pipeline
PartyUnits == <<2, 1>>
\* dnn_units_size of the DeepFMFuse
FuseUnits == <<2>>

\* input_dims: n slots, of cardinality / width 1..MaxCard
InputDims(n, c) == [i \in 1..n |-> ((c + i) % MaxCard) + 1]
InputDimsChoices == {InputDims(n, c) : n \in 0..MaxSlots, c \in 0..(MaxCard - 1)}

\* continuous_feas_index: any list of at most MaxCont indices, the indices
\* Python rejects (MaxSlots and beyond n) and negative ones included
ContIdx == (-1)..MaxSlots
ContChoices == UNION {[1..k -> ContIdx] : k \in 0..MaxCont}

\* the three kinds of party of the pipeline: categorical only, continuous
\* only, mixed
PartyKinds ==
    {[input_dims |-> <<2, 2>>, cont |-> <<>>],
     [input_dims |-> <<2>>, cont |-> <<0>>],
     [input_dims |-> <<2, 2>>, cont |-> <<1>>]}

\* One example for a party: slot i holds an index if the slot is not named
\* continuous, a row of its width otherwise; m is the length of the list.
XInput(self, v, m) ==
    LET n == self.input_size
        cont == self.continuous_feas_index
        named == {PyPos(n, cont[k]) : k \in 1..Len(cont)}
    IN [i \in 1..m |->
          IF i > n THEN IdxT(0)
          ELSE IF i \in named
               THEN Mat([d \in 1..self.input_dims[i] |-> 2 * ((v + d) % NumVariants) - 1])
               ELSE IdxT((v + i) % self.input_dims[i])]

\* --------------------------------------------------------------- actions
\* DeepFMBase(input_dims, dnn_units_size, cont, fm_embedding_dim)
ConstructBase(input_dims, dnn_units_size, cont, fm_embedding_dim, seed) ==
    LET raised == InitRaises(input_dims, cont, fm_embedding_dim)
    IN /\ last_init' = [called |-> TRUE, input_dims |-> input_dims, cont |-> cont,
                         raised |-> raised]
       /\ bases' = IF raised THEN bases
                    ELSE Append(bases, DeepFMBase_init(input_dims, dnn_units_size,
                                                       cont, fm_embedding_dim, seed))
       /\ calls' = IF raised THEN calls ELSE Append(calls, NoCall)
       /\ UNCHANGED <<fuse, fcall, example>>

\* a slip: forward moving the party's tables
AfterForward_TouchesTables(self) == [self EXCEPT !.seed = self.seed + 1]

\* what forward leaves of the instance: it assigns no attribute
AfterForward(self) == self

\* party p runs DeepFMBase.forward(x)
ForwardBase(p, x) ==
    \E r \in {DeepFMBase_forward(bases[p], x)} :
       /\ calls' = [calls EXCEPT ![p] = [called |-> TRUE, x |-> x,
                                          raised |-> r.raised, out |-> r.out]]
       /\ bases' = [bases EXCEPT ![p] = AfterForward(bases[p])]
       /\ UNCHANGED <<last_init, fuse, fcall, example>>

\* a single party: any configuration, any input length
ConstructAny ==
    /\ ~last_init.called
    /\ \E input_dims \in InputDimsChoices, units \in BaseUnits, cont \in ContChoices,
          dim \in 1..MaxDim, seed \in 0..(NumSeeds - 1) :
          ConstructBase(input_dims, units, cont, dim, seed)

ForwardAny ==
    /\ Len(bases) = 1
    /\ \E m \in {k \in 0..(MaxSlots + 1) : k - bases[1].input_size \in {-1, 0, 1}} :
          ForwardBase(1, XInput(bases[1], example, m))

NextBase == ConstructAny \/ ForwardAny

SpecBase == Init /\ [][NextBase]_vars

\* the pipeline: parties of the three kinds, one embedding width for all
ConstructParty ==
    /\ Len(bases) < MaxParties
    /\ ~fuse.built
    /\ \A p \in 1..Len(calls) : ~calls[p].called
    /\ \E kind \in PartyKinds, dim \in {1, MaxDim} :
          /\ bases # <<>> => dim = bases[1].fm_embedding_dim
          /\ ConstructBase(kind.input_dims, PartyUnits, kind.cont, dim,
                           Len(bases) % NumSeeds)

ForwardParty ==
    /\ ~fuse.built
    /\ \E p \in 1..Len(bases) :
          ForwardBase(p, XInput(bases[p], example + p, bases[p].input_size))

\* the flat list the transport hands to the aggregator
RECURSIVE Tuples(_, _)
Tuples(cs, p) == IF p > Len(cs) THEN <<>> ELSE cs[p].out \o Tuples(cs, p + 1)

AllReturned == \A p \in 1..Len(calls) : calls[p].called /\ ~calls[p].raised

\* DeepFMFuse(input_dims, dnn_units_size): one width per party it expects
ConstructFuse ==
    /\ ~fuse.built
    /\ bases # <<>>
    /\ AllReturned
    /\ \E m \in {Len(bases), Len(bases) + 1} :
          \E obj \in {DeepFMFuse_init([k \in 1..m |-> PartyUnits[Len(PartyUnits)]],
                                      FuseUnits)} :
             fuse' = [built |-> TRUE, start |-> obj.start,
                      n_parties |-> obj.n_parties,
                      dnn_units_size |-> obj.dnn_units_size]
    /\ UNCHANGED <<bases, last_init, calls, fcall, example>>

\* DeepFMFuse.forward(x): the parties' tuples in party order, or that list cut
\* short by `drop` elements
ForwardFuse ==
    /\ fuse.built
    /\ \E drop \in 0..3 :
          \E all \in {Tuples(calls, 1)} :
          \E x \in {SubSeq(all, 1, Len(all) - drop)} :
          \E r \in {DeepFMFuse_forward(fuse, x)} :
             fcall' = [called |-> TRUE, x |-> x, raised |-> r.raised,
                       outputs2 |-> r.outputs2, second2 |-> r.second2,
                       fm_1st_part |-> r.fm_1st_part, dnn |-> r.dnn]
    /\ UNCHANGED <<bases, last_init, calls, fuse, example>>

Next == ConstructParty \/ ForwardParty \/ ConstructFuse \/ ForwardFuse

Spec == Init /\ [][Next]_vars

\* ------------------------------------------------------------ properties
\* a party that emits real statistics / the sentinel
HasCat(p) == bases[p].has_cat_feas
\* S^2 - Q of one party's tuple, per embedding dimension
OwnSecond2(out) ==
    Mat([d \in 1..Width(out[3]) |-> out[3].rows[1][d] * out[3].rows[1][d]
                                     - out[4].rows[1][d]])
\* the aggregator was handed the whole list of the parties' tuples
WholeList == fcall.called /\ Len(fcall.x) = 4 * Len(bases)

\* C1: two parties, exactly one of them without categorical features, in
\* either order: the second-order term the aggregator reconstructs
\* (sum_and_square_emb - square_and_sum_emb, halved) is the one computed from
\* the statistics of the party that has them, unmodified.
C1_SentinelSubstitution ==
    \A a \in 1..Len(bases) :
        (WholeList /\ Len(bases) = 2 /\ HasCat(a) /\ ~HasCat(3 - a))
            => /\ fcall.second2 = OwnSecond2(calls[a].out)
               /\ SumSeq(fcall.second2.rows[1]) = SumSeq(OwnSecond2(calls[a].out).rows[1])

\* C1 witness: the sentinel party first, the real party second, the call
\* returned and the term is not zero.
C1_Witness ==
    /\ WholeList /\ Len(bases) = 2 /\ ~HasCat(1) /\ HasCat(2)
    /\ ~fcall.raised
    /\ SumSeq(fcall.second2.rows[1]) # 0

\* sum over the parties with real statistics of component d of tuple slot k
RECURSIVE RealSum(_, _, _)
RealSum(p, k, d) ==
    IF p > Len(bases) THEN 0
    ELSE (IF HasCat(p) THEN calls[p].out[k].rows[1][d] ELSE 0) + RealSum(p + 1, k, d)

\* C2: three or more parties, at least two of them with real statistics,
\* the sentinel parties anywhere: the reconstructed second-order term is
\* (sum of all sum_emb)^2 - (sum of all square_and_sum_emb), halved.
C2_AllPartiesCounted ==
    (/\ WholeList /\ Len(bases) >= 3
     /\ fuse.n_parties = Len(bases)
     /\ Cardinality({p \in 1..Len(bases) : HasCat(p)}) >= 2)
        => /\ ~fcall.raised
           /\ fcall.second2 =
                Mat([d \in 1..bases[1].fm_embedding_dim |->
                        RealSum(1, 3, d) * RealSum(1, 3, d) - RealSum(1, 4, d)])

\* the second-order embedding of slot `slot` looked up for input x
EmbVec(self, x, slot) ==
    [d \in 1..self.fm_embedding_dim |-> Emb2W(self.seed, slot, x[slot + 1].rows[1][1], d)]
Dot(u, v) == SumSeq([d \in 1..Len(u) |-> u[d] * v[d]])
\* sum over the pairs i < j of categorical slots of <e_i, e_j>
PairSum(self, x) ==
    LET keys == self.emb_keys
        ps == {<<i, j>> \in (1..Len(keys)) \X (1..Len(keys)) : i < j}
        RECURSIVE Acc(_)
        Acc(S) == IF S = {} THEN 0
                  ELSE LET q == CHOOSE q \in S : TRUE
                       IN Dot(EmbVec(self, x, keys[q[1]]), EmbVec(self, x, keys[q[2]]))
                          + Acc(S \ {q})
    IN Acc(ps)

\* C3: for one party, the statistics forward emits satisfy the
\* factorization-machine identity, in doubled form: twice the sum over slot
\* pairs i < j of <e_i, e_j> equals the sum over d of sum_emb[d]^2 -
\* square_and_sum_emb[d].
C3_FmIdentity ==
    \A p \in 1..Len(bases) :
        (calls[p].called /\ ~calls[p].raised /\ HasCat(p))
            => 2 * PairSum(bases[p], calls[p].x)
                 = SumSeq(OwnSecond2(calls[p].out).rows[1])

\* C3 witness: a party with three categorical slots has run forward and its
\* pairwise interaction is not zero.
C3_Witness ==
    /\ Len(bases) = 1
    /\ calls[1].called /\ ~calls[1].raised
    /\ Len(bases[1].emb_keys) = 3
    /\ PairSum(bases[1], calls[1].x) # 0

\* C4: a forward call with a shape-mismatched input raises: DeepFMBase.forward
\* with a list of another length than the slot count, DeepFMFuse.forward with a
\* list whose length is no multiple of 4 or is not 4 times the number of
\* parties of the constructor.
C4_ShapeMismatchRejected ==
    /\ \A p \in 1..Len(bases) :
          (calls[p].called /\ Len(calls[p].x) # bases[p].input_size)
              => calls[p].raised /\ calls[p].out = <<>>
    /\ (fcall.called /\ (Len(fcall.x) % 4 # 0 \/ Len(fcall.x) \div 4 # fuse.n_parties))
          => fcall.raised

\* C5: the constructor raises, and leaves no instance, on a continuous-index
\* list with an index outside 0..slot_count-1 and on a party without slots.
C5_MalformedConfigRejected ==
    (/\ last_init.called
     /\ \/ Len(last_init.input_dims) = 0
        \/ \E k \in 1..Len(last_init.cont) :
              last_init.cont[k] \notin 0..(Len(last_init.input_dims) - 1))
        => last_init.raised /\ bases = <<>>

\* a valid configuration: at least one slot, the continuous indices in range
\* and distinct
ValidCont(n, cont) ==
    /\ \A k \in 1..Len(cont) : cont[k] \in 0..(n - 1)
    /\ \A k, l \in 1..Len(cont) : k # l => cont[k] # cont[l]
ValidConfig(input_dims, cont) ==
    /\ Len(input_dims) > 0
    /\ ValidCont(Len(input_dims), cont)
\* the party's configuration is one the specification admits
ValidParty(p) == ValidConfig(bases[p].input_dims, bases[p].continuous_feas_index)
\* every slot is named continuous
NoCategorical(p) ==
    Range(bases[p].continuous_feas_index) = 0..(bases[p].input_size - 1)
IsVector(t, w) == t.rank = 2 /\ Width(t) = w

\* C6: output_num() is 4 and, for every valid configuration, forward returns
\* four elements in the order DNN output, first-order sum, sum_emb,
\* square_and_sum_emb; the last two are the scalar 0 exactly when the party
\* has no categorical slot and are vectors of width D otherwise.
C6_FourOutputs ==
    /\ output_num = 4
    /\ \A p \in 1..Len(bases) :
          (calls[p].called /\ ValidParty(p) /\ Len(calls[p].x) = bases[p].input_size)
              => /\ ~calls[p].raised
                 /\ Len(calls[p].out) = output_num
                 /\ IsVector(calls[p].out[1],
                             bases[p].dnn_units_size[Len(bases[p].dnn_units_size)])
                 /\ IsVector(calls[p].out[2], 1)
                 /\ NoCategorical(p) =>
                        calls[p].out[3] = Scalar(0) /\ calls[p].out[4] = Scalar(0)
                 /\ ~NoCategorical(p) =>
                        /\ IsVector(calls[p].out[3], bases[p].fm_embedding_dim)
                        /\ IsVector(calls[p].out[4], bases[p].fm_embedding_dim)

\* C6 witness: a party whose two slots are both continuous has run forward
\* and emitted the sentinel.
C6_Witness ==
    /\ Len(bases) = 1 /\ ValidParty(1) /\ NoCategorical(1)
    /\ bases[1].input_size = 2
    /\ calls[1].called /\ ~calls[1].raised
    /\ calls[1].out[3] = Scalar(0)

\* C7: after construction with a continuous-index list of valid slot indices,
\* duplicates included, the slots with embedding tables are the slots the list
\* does not name, the categorical-slot count is the number of tables, and the
\* DNN input width is that of the flattened stacked embeddings.
C7_TablesMatchSlots ==
    \A p \in 1..Len(bases) :
        (\A k \in 1..Len(bases[p].continuous_feas_index) :
            bases[p].continuous_feas_index[k] \in 0..(bases[p].input_size - 1))
        => /\ Range(bases[p].emb_keys)
                = (0..(bases[p].input_size - 1)) \ Range(bases[p].continuous_feas_index)
           /\ bases[p].cat_feas_nums = Len(bases[p].emb_keys)
           /\ bases[p].second_part_dim =
                IF bases[p].emb_keys # <<>>
                THEN bases[p].fm_embedding_dim * Len(bases[p].emb_keys)
                ELSE bases[p].fm_embedding_dim

\* the instance as its constructor left it
AsConstructed(p) ==
    DeepFMBase_init(bases[p].input_dims, bases[p].dnn_units_size,
                    bases[p].continuous_feas_index, bases[p].fm_embedding_dim,
                    (p - 1) % NumSeeds)
\* the tuple of party p as a function of its own tables and input alone
OwnTuple(p) == DeepFMBase_forward(AsConstructed(p), calls[p].x)
RECURSIVE OwnTuples(_)
OwnTuples(p) == IF p > Len(bases) THEN <<>> ELSE OwnTuple(p).out \o OwnTuples(p + 1)

FirstOrderSum(x) ==
    SumSeq([k \in 1..Len(Stride4(x, 1)) |-> Stride4(x, 1)[k].rows[1][1]])

\* C9: the pre-sigmoid score is the reconstructed second-order scalar plus
\* the sum over the parties of the first-order sums, each with weight 1, plus
\* the fusion network's output (all doubled here).
C9_FirstOrderWeightOne ==
    (fcall.called /\ ~fcall.raised)
        => fcall.outputs2.rows[1][1]
             = SumSeq(fcall.second2.rows[1]) + 2 * FirstOrderSum(fcall.x)
               + 2 * fcall.dnn.rows[1][1]

\* C10: for every number of parties from 1 and every valid configuration of
\* each, forward on the whole well-formed list returns a prediction.
C10_WellFormedNeverRaises ==
    (WholeList /\ fuse.n_parties = Len(bases)) => ~fcall.raised
====
